---------------------------- MODULE Spec2Model ----------------------------
(***************************************************************************)
(* Risk-scoring pipeline of the surf-risk-analyzer.                        *)
(*                                                                         *)
(* Numbers.  Python floats are modelled in fixed point:                    *)
(*   - scores, boosts and the two float features are in thousandths        *)
(*     (3.33 is 3330, a boost of 0.5 is 500);                              *)
(*   - probabilities are in thousandths too (0.25 is 250).                 *)
(* round(x, 2) yields a multiple of 10 thousandths.  A binary float that   *)
(* stands for a decimal tie (x.xx5) lies a hair above or below it, so the  *)
(* side a tie is rounded to is an input of Round2 (parameter e).           *)
(***************************************************************************)
EXTENDS Integers, Sequences, FiniteSets, TLC

VARIABLES
    incidents,      \* db['incidents']: sequence of incident documents
    surfspots,      \* db['surfspots']: sequence of surf spot documents
    hazardreports,  \* db['hazardreports']: sequence of hazard report documents
    current_month,  \* datetime.now().month
    synth,          \* last run of the score arithmetic on drawn inputs
    feat,           \* last result of calculate_spot_features
    response,       \* last HTTP response of the ML API
    cursor,         \* update_all_risk_scores: documents still to be visited
    bpc,            \* update_all_risk_scores: "idle", "loop" or "done"
    stdout,         \* update_all_risk_scores: lines printed by the current run
    probe,          \* last call of get_risk_level_and_flag on drawn inputs
    skill,          \* calculate_skill_based_risks: variant, position, results
    call,           \* last call of a pure function on drawn inputs
    rf_model,       \* the loaded classifier, or None when it is left open
    ended,          \* how the last two runs of update_all_risk_scores ended
    before          \* the registry as the current run found it at its start

vars == <<incidents, surfspots, hazardreports, current_month, synth, feat,
          response, cursor, bpc, stdout, probe, skill, call, rf_model,
          ended, before>>

dbvars == <<incidents, surfspots, hazardreports, current_month>>

\* an absent value is the empty sequence, a present one a sequence of one
None == <<>>

Some(x) == <<x>>

The(opt) == opt[1]

-----------------------------------------------------------------------------
(* Bounds of the model *)

\* hazard reports in the store
MaxReports == 2
\* probabilities are multiples of 1/ConfDen
ConfDen == 4
\* the drawn recency boost ranges over 0, 0.5, ..., MaxBoostHalves / 2
MaxBoostHalves == 24
\* scores drawn for get_risk_level_and_flag: 0.00 .. MaxProbeScore / 100
MaxProbeScore == 1000
\* incident counts drawn for calculate_risk_score
MaxCount == 30
\* incidents in the store the training script reads
MaxRows == 3

-----------------------------------------------------------------------------
(* Arithmetic helpers *)

Min(a, b) == IF a <= b THEN a ELSE b

Max(a, b) == IF a >= b THEN a ELSE b

\* sign of the representation error of a binary float at a decimal tie
FloatErr == {-1, 1}

\* round(x, 2) of x thousandths (x >= 0), in thousandths
Round2(x, e) ==
    LET r == x % 10
        d == x - r
    IN  IF r < 5 THEN d
        ELSE IF r > 5 THEN d + 10
        ELSE IF e > 0 THEN d + 10 ELSE d

RECURSIVE SumSeq(_)
SumSeq(s) == IF s = <<>> THEN 0 ELSE Head(s) + SumSeq(Tail(s))

\* the last two elements of a sequence
LastTwo(s) == IF Len(s) <= 2 THEN s ELSE SubSeq(s, Len(s) - 1, Len(s))

\* all sequences over S of length at most n
SeqsUpTo(S, n) == UNION {[1..k -> S] : k \in 0..n}

-----------------------------------------------------------------------------
(* Levels and flags *)

\* a variant that pairs Medium with red and High with yellow
LevelFlagSwapped == [Low |-> "green", Medium |-> "red", High |-> "yellow"]

LevelFlag == [Low |-> "green", Medium |-> "yellow", High |-> "red"]

\* the order Low < Medium < High
LevelRank == [Low |-> 0, Medium |-> 1, High |-> 2]

-----------------------------------------------------------------------------
(* The surf spot registry, db['surfspots'].                                *)
(* The model follows the documents of the spots named in TrackedSpots;    *)
(* every operation handles the documents of other spots the same way, one  *)
(* at a time, and they are left out.  A document's _id is the position of  *)
(* its name in TrackedSpots.  lastUpdated holds, for datetime.now(), the   *)
(* operation that took the time.                                           *)

\* two spots of surf_spots_data and one that no table of the scripts names
TrackedSpots == <<"Hikkaduwa", "Midigama", "Nilaveli">>

SpotId(name) == CHOOSE k \in DOMAIN TrackedSpots : TrackedSpots[k] = name

\* the document initialize_surf_spots inserts for a spot
NewSpotDoc(name, incident_count) ==
    [_id |-> SpotId(name),
     name |-> name,
     location |-> "province",
     totalIncidents |-> incident_count,
     riskScore |-> 0,
     riskLevel |-> "Low",
     flagColor |-> "green",
     lastUpdated |-> "initialize_surf_spots",
     skillLevelRisks |-> None]

\* a document of the collection that has no 'name' key; nothing in the
\* collection's schema is enforced by the store
NamelessDoc ==
    LET doc == NewSpotDoc(TrackedSpots[1], 0)
    IN  [f \in DOMAIN doc \ {"name"} |->
            IF f = "_id" THEN Len(TrackedSpots) + 1 ELSE doc[f]]

\* collection.find_one({'name': spot_name}): the first match, or None; a
\* document without the key does not match
FindOneByName(coll, spot_name) ==
    LET hits == SelectSeq(coll, LAMBDA d : "name" \in DOMAIN d
                                           /\ d.name = spot_name)
    IN  IF hits = <<>> THEN None ELSE Some(Head(hits))

\* a variant that writes the fields to every document of the collection
UpdateManySet(coll, id, fields) ==
    [k \in DOMAIN coll |->
        [f \in DOMAIN coll[k] |->
            IF f \in DOMAIN fields THEN fields[f] ELSE coll[k][f]]]

\* collection.update_one({'_id': id}, {'$set': fields}): the first match
\* gets the fields, the other keys of the document stay
UpdateOneSet(coll, id, fields) ==
    LET first == {k \in DOMAIN coll : coll[k]._id = id
                                      /\ \A j \in 1..(k - 1) : coll[j]._id # id}
    IN  [k \in DOMAIN coll |->
            IF k \in first
            THEN [f \in DOMAIN coll[k] |->
                     IF f \in DOMAIN fields THEN fields[f] ELSE coll[k][f]]
            ELSE coll[k]]

-----------------------------------------------------------------------------
(* The incident store and the hazard report store *)

\* an incident document as import_incidents builds it.  incidentType is
\* free text; the model keeps which of the keywords it contains.  month is
\* 0 for None.
Incident(site, severity, keywords, month) ==
    [site |-> site, severity |-> severity, incidentType |-> keywords,
     month |-> month]

\* a sample of imported rows
SampleIncidents ==
    << Incident("Hikkaduwa", "fatal", {"drowning", "rip"}, 6),
       Incident("Hikkaduwa", "moderate", {"reef", "cut"}, 0),
       Incident("Midigama", "severe", {"collision"}, 1),
       Incident("Hikkaduwa", "minor", {}, 1) >>

\* the incident stores drawn: nothing imported, or the sample
IncidentStores == {<<>>, SampleIncidents}

\* a hazard report names its spot by _id and carries the hours since its
\* reportDate
ReportSpots == {1, 2}

ReportSeverities == {"high", "medium", "low"}

ReportStatuses == {"pending", "rejected"}

ReportAges == {1, 25}

HazardReports ==
    [surfSpot : ReportSpots, severity : ReportSeverities,
     status : ReportStatuses, age : ReportAges]

\* a sample of filed reports and the stores the API is run against
SampleReports ==
    << [surfSpot |-> 1, severity |-> "high", status |-> "pending", age |-> 1],
       [surfSpot |-> 2, severity |-> "low", status |-> "pending", age |-> 1],
       [surfSpot |-> 1, severity |-> "medium", status |-> "rejected", age |-> 1] >>

ReportStores == {<<>>, SampleReports}

\* timedelta(days=1), in hours
RecentHours == 24

-----------------------------------------------------------------------------
(* Risk classifier (models/risk_classifier.pkl): an opaque function of the  *)
(* feature row.  Its answer is a predicted level and a probability vector  *)
(* with one entry per class seen in training.                              *)

\* labels of train_model.py: 0 Low, 1 Medium, 2 High
PredictedLevels == 0..2

\* a forest averages the class frequencies of its trees' leaves, so its
\* probabilities are not confined to a grid: two vectors off the grid
FineProbaVectors == {<<486, 257, 257>>, <<264, 471, 265>>}

\* probability vectors of 1 to 3 classes summing to 1, in thousandths
ProbaVectors ==
    {[i \in DOMAIN p |-> (1000 * p[i]) \div ConfDen] :
        p \in {q \in SeqsUpTo(0..ConfDen, 3) : Len(q) >= 1 /\ SumSeq(q) = ConfDen}}
    \cup FineProbaVectors

ClassifierOutputs == [level : PredictedLevels, proba : ProbaVectors]

\* Sample forests, each a function of the feature row: one fitted on rows
\* of a single label, one on all three labels, one on the labels 1 and 2
\* only (predict returns the label, predict_proba one column per label
\* seen).
Classifiers == {"one_label", "three_labels", "two_labels"}

Classify(model, features) ==
    IF model = "one_label" THEN [level |-> 0, proba |-> <<1000>>]
    ELSE IF model = "three_labels"
    THEN IF features.fatal_count > 0
         THEN [level |-> 2, proba |-> <<0, 250, 750>>]
         ELSE IF features.total_incidents > 0
         THEN [level |-> 1, proba |-> <<250, 500, 250>>]
         ELSE [level |-> 0, proba |-> <<750, 250, 0>>]
    ELSE IF features.total_incidents >= 10000
         THEN [level |-> 2, proba |-> <<250, 750>>]
         ELSE [level |-> 1, proba |-> <<750, 250>>]

-----------------------------------------------------------------------------
(* predict_risk.py: the score arithmetic of predict_risk_score *)

\* (risk_level_int + 1) * 3.33
BaseStep == 3330

\* upper end of the score scale
ScoreMax == 10000

\* fixed thresholds of predict_risk_score
FixedLow == 3300

FixedMedium == 6600

\* a variant that falls back to the last probability
ConfidenceLast(risk_level_int, risk_level_proba) ==
    IF risk_level_int >= Len(risk_level_proba)
    THEN risk_level_proba[Len(risk_level_proba)]
    ELSE risk_level_proba[risk_level_int + 1]

\* the guard against an out-of-bounds index (proba is 0-indexed in Python)
Confidence(risk_level_int, risk_level_proba) ==
    IF risk_level_int >= Len(risk_level_proba)
    THEN risk_level_proba[1]
    ELSE risk_level_proba[risk_level_int + 1]

BaseScore(risk_level_int) == (risk_level_int + 1) * BaseStep

\* a variant with four times the weight on the confidence
ConfidenceAdjustmentWide(confidence) == (confidence - 500) * 8

\* (confidence - 0.5) * 2
ConfidenceAdjustment(confidence) == (confidence - 500) * 2

\* a variant that keeps only the lower end of the clamp
ClipLowerOnly(x, lo, hi) == Max(x, lo)

\* np.clip(x, lo, hi)
Clip(x, lo, hi) == Min(Max(x, lo), hi)

\* a variant that reads the beginner row of the skill table
FixedLevelBeginnerTable(risk_score) ==
    IF risk_score <= 5000 THEN "Low"
    ELSE IF risk_score <= 6500 THEN "Medium"
    ELSE "High"

\* the if/elif/else on the clamped score
FixedLevel(risk_score) ==
    IF risk_score <= FixedLow THEN "Low"
    ELSE IF risk_score <= FixedMedium THEN "Medium"
    ELSE "High"

\* the level and the flag the three branches assign together
FixedLevelAndFlag(risk_score) ==
    [level |-> FixedLevel(risk_score), flag |-> LevelFlag[FixedLevel(risk_score)]]

\* lines 91-122: from the classifier's answer and the boost to the result,
\* with the locals base_score and risk_score (clamped, not yet rounded)
ScoreFrom(risk_level_int, risk_level_proba, hazard_boost, e) ==
    LET confidence == Confidence(risk_level_int, risk_level_proba)
        base_score == BaseScore(risk_level_int)
        risk_score == Clip(base_score + ConfidenceAdjustment(confidence)
                               + hazard_boost, 0, ScoreMax)
        risk_level == FixedLevelAndFlag(risk_score).level
    IN  [base_score |-> base_score,
         clamped |-> risk_score,
         result |-> [risk_score |-> Round2(risk_score, e),
                     risk_level |-> risk_level,
                     flag_color |-> FixedLevelAndFlag(risk_score).flag,
                     confidence |-> Round2(confidence, e),
                     has_recent_hazards |-> hazard_boost > 0]]

\* the boosts drawn for the arithmetic: 0, 0.5, 1.0, ...
DrawnBoosts == {500 * h : h \in 0..MaxBoostHalves}

\* the score arithmetic applied to the drawn inputs
Synthesize ==
    /\ synth # None
    /\ The(synth).run = None
    /\ \E e \in FloatErr :
        synth' = Some([The(synth) EXCEPT !.run =
                    Some(ScoreFrom(The(synth).level, The(synth).proba,
                                   The(synth).boost, e))])
    /\ UNCHANGED <<dbvars, feat, response, cursor, bpc, stdout, probe, skill,
                   call, rf_model, ended, before>>

\* what one more recent report adds to the boost: 0.5, 1.0 or 2.0
BoostSteps == {500, 1000, 2000}

\* the score arithmetic applied to one classifier answer under two boosts
CompareBoosts ==
    /\ call # None
    /\ The(call).fn = "boosts"
    /\ The(call).out = None
    /\ \E e1 \in FloatErr, e2 \in FloatErr :
        call' = Some([The(call) EXCEPT !.out =
                   Some(<<ScoreFrom(The(call).level, The(call).proba,
                                    The(call).boosts[1], e1).result,
                          ScoreFrom(The(call).level, The(call).proba,
                                    The(call).boosts[2], e2).result>>)])
    /\ UNCHANGED <<dbvars, synth, feat, response, cursor, bpc, stdout, probe,
                   skill, rf_model, ended, before>>

-----------------------------------------------------------------------------
(* predict_risk.py: calculate_spot_features *)

\* sum(1 for x in s if Test(x))
Count(s, Test(_)) == Len(SelectSeq(s, Test))

\* a variant of the query without the status condition
RecentHazardsAnyStatus(surf_spot) ==
    SelectSeq(hazardreports,
              LAMBDA h : /\ h.surfSpot = surf_spot._id
                         /\ h.age <= RecentHours)

\* hazard_reports_collection.find({surfSpot, reportDate >= yesterday,
\* status != 'rejected'})
RecentHazards(surf_spot) ==
    SelectSeq(hazardreports,
              LAMBDA h : /\ h.surfSpot = surf_spot._id
                         /\ h.age <= RecentHours
                         /\ h.status # "rejected")

\* the boost one report adds
HazardWeight(hazard) ==
    IF hazard.severity = "high" THEN 2000
    ELSE IF hazard.severity = "medium" THEN 1000
    ELSE 500

\* the for loop over recent_hazards
RECURSIVE BoostOf(_)
BoostOf(recent_hazards) ==
    IF recent_hazards = <<>> THEN 0
    ELSE HazardWeight(Head(recent_hazards)) + BoostOf(Tail(recent_hazards))

\* a variant that derives incidents_per_year from the boosted total
FeaturesOfBoostedRate(spot_incidents, recent_hazard_boost) ==
    LET total_incidents == Len(spot_incidents)
        peak_months == {spot_incidents[k].month : k \in
                           {j \in DOMAIN spot_incidents :
                               spot_incidents[j].month # 0}}
    IN  [total_incidents |-> total_incidents * 1000 + recent_hazard_boost * 5,
         fatal_count |-> Count(spot_incidents, LAMBDA i : i.severity = "fatal"),
         severe_count |-> Count(spot_incidents, LAMBDA i : i.severity = "severe"),
         moderate_count |-> Count(spot_incidents,
                                  LAMBDA i : i.severity = "moderate"),
         drowning_count |-> Count(spot_incidents,
                                  LAMBDA i : "drowning" \in i.incidentType),
         reef_cut_count |-> Count(spot_incidents,
                                  LAMBDA i : "reef" \in i.incidentType
                                             \/ "cut" \in i.incidentType),
         collision_count |-> Count(spot_incidents,
                                   LAMBDA i : "collision" \in i.incidentType),
         rip_current_count |-> Count(spot_incidents,
                                     LAMBDA i : "rip" \in i.incidentType),
         is_peak_season |-> IF current_month \in peak_months THEN 1 ELSE 0,
         incidents_per_year |->
             (total_incidents * 1000 + recent_hazard_boost * 5) \div 10]

\* the features dict; total_incidents and incidents_per_year are floats,
\* in thousandths
FeaturesOf(spot_incidents, recent_hazard_boost) ==
    LET total_incidents == Len(spot_incidents)
        peak_months == {spot_incidents[k].month : k \in
                           {j \in DOMAIN spot_incidents :
                               spot_incidents[j].month # 0}}
    IN  [total_incidents |-> total_incidents * 1000 + recent_hazard_boost * 5,
         fatal_count |-> Count(spot_incidents, LAMBDA i : i.severity = "fatal"),
         severe_count |-> Count(spot_incidents, LAMBDA i : i.severity = "severe"),
         moderate_count |-> Count(spot_incidents,
                                  LAMBDA i : i.severity = "moderate"),
         drowning_count |-> Count(spot_incidents,
                                  LAMBDA i : "drowning" \in i.incidentType),
         reef_cut_count |-> Count(spot_incidents,
                                  LAMBDA i : "reef" \in i.incidentType
                                             \/ "cut" \in i.incidentType),
         collision_count |-> Count(spot_incidents,
                                   LAMBDA i : "collision" \in i.incidentType),
         rip_current_count |-> Count(spot_incidents,
                                     LAMBDA i : "rip" \in i.incidentType),
         is_peak_season |-> IF current_month \in peak_months THEN 1 ELSE 0,
         incidents_per_year |-> total_incidents * 100]

\* a variant without the test of surf_spot: subscripting None raises
calculate_spot_features_unguarded(spot_name) ==
    LET spot_incidents == SelectSeq(incidents, LAMBDA i : i.site = spot_name)
        surf_spot == FindOneByName(surfspots, spot_name)
    IN  IF surf_spot = None THEN [raised |-> TRUE]
        ELSE LET boost == BoostOf(RecentHazards(The(surf_spot)))
             IN  [raised |-> FALSE,
                  features |-> FeaturesOf(spot_incidents, boost),
                  recent_hazard_boost |-> boost]

\* calculate_spot_features(spot_name): (features, recent_hazard_boost)
calculate_spot_features(spot_name) ==
    LET spot_incidents == SelectSeq(incidents, LAMBDA i : i.site = spot_name)
        surf_spot == FindOneByName(surfspots, spot_name)
        recent_hazard_boost ==
            IF surf_spot # None THEN BoostOf(RecentHazards(The(surf_spot)))
            ELSE 0
    IN  [raised |-> FALSE,
         features |-> FeaturesOf(spot_incidents, recent_hazard_boost),
         recent_hazard_boost |-> recent_hazard_boost]

\* the location identifiers asked for
SpotNames == {TrackedSpots[k] : k \in DOMAIN TrackedSpots}

\* calculate_spot_features is called for some location
CalculateSpotFeatures ==
    /\ feat = None
    /\ \E spot_name \in SpotNames :
        feat' = Some([spot_name |-> spot_name,
                      out |-> calculate_spot_features(spot_name)])
    /\ UNCHANGED <<dbvars, synth, response, cursor, bpc, stdout, probe, skill,
                   call, rf_model, ended, before>>

-----------------------------------------------------------------------------
(* predict_risk.py: predict_risk_score and update_all_risk_scores;         *)
(* app.py: GET /predict-risk/<spot_name>                                   *)

-----------------------------------------------------------------------------
(* import_incidents.py: initialize_surf_spots;                             *)
(* train_model.py: extract_features_from_incidents                         *)

\* the names of surf_spots_data that the model follows, in its order
surf_spots_data == <<"Hikkaduwa", "Midigama">>

\* the collection initialize_surf_spots leaves: the old documents are
\* deleted and one document per entry of surf_spots_data is inserted,
\* with the count of the incidents of its site
initialize_surf_spots ==
    [k \in DOMAIN surf_spots_data |->
        NewSpotDoc(surf_spots_data[k],
                   Count(incidents, LAMBDA i : i.site = surf_spots_data[k]))]

\* a whole run of initialize_surf_spots, started while no other run is
\* in progress; an insert may raise, which leaves the documents inserted
\* before it
InitializeSurfSpots ==
    /\ bpc # "loop"
    /\ skill = None
    /\ \E inserted \in 0..Len(surf_spots_data) :
        surfspots' = SubSeq(initialize_surf_spots, 1, inserted)
    /\ UNCHANGED <<incidents, hazardreports, current_month, synth, feat,
                   response, cursor, bpc, stdout, probe, skill, call,
                   rf_model, ended, before>>

\* incidents_collection.distinct('site'): every site once
RECURSIVE Distinct(_)
Distinct(sites) ==
    IF sites = <<>> THEN <<>>
    ELSE <<Head(sites)>>
         \o SelectSeq(Distinct(Tail(sites)), LAMBDA x : x # Head(sites))

\* pd.Series(months).mode().tolist(): every value that occurs as often as
\* the most frequent one
Mode(months) ==
    LET values == {months[k] : k \in DOMAIN months}
        occurrences(m) == Count(months, LAMBDA x : x = m)
    IN  {m \in values : \A n \in values : occurrences(n) <= occurrences(m)}

\* the body of the for loop of extract_features_from_incidents: the row of
\* one site.  total_incidents, incidents_per_year and risk_score are in
\* thousandths.
TrainingRow(spot) ==
    LET spot_incidents == SelectSeq(incidents, LAMBDA i : i.site = spot)
        total_incidents == Len(spot_incidents)
        fatal_count == Count(spot_incidents, LAMBDA i : i.severity = "fatal")
        severe_count == Count(spot_incidents, LAMBDA i : i.severity = "severe")
        moderate_count == Count(spot_incidents,
                                LAMBDA i : i.severity = "moderate")
        months == SelectSeq([k \in DOMAIN spot_incidents |->
                                spot_incidents[k].month],
                            LAMBDA m : m # 0)
        peak_months == IF months # <<>> THEN Mode(months) ELSE {6}
        drowning_count == Count(spot_incidents,
                                LAMBDA i : "drowning" \in i.incidentType)
        reef_cut_count == Count(spot_incidents,
                                LAMBDA i : "reef" \in i.incidentType
                                           \/ "cut" \in i.incidentType)
        collision_count == Count(spot_incidents,
                                 LAMBDA i : "collision" \in i.incidentType)
        rip_current_count == Count(spot_incidents,
                                   LAMBDA i : "rip" \in i.incidentType)
        weighted == fatal_count * 10000 + severe_count * 5000
                    + moderate_count * 2000 + drowning_count * 3000
                    + reef_cut_count * 1500 + rip_current_count * 2500
                    + collision_count * 1000
        \* weighted / max(1, len(spot_incidents) / 10)
        normalized == IF total_incidents <= 10 THEN weighted
                      ELSE (weighted * 10) \div total_incidents
        risk_score == Min(10000, normalized)
    IN  [surf_spot |-> spot,
         total_incidents |-> total_incidents * 1000,
         fatal_count |-> fatal_count,
         severe_count |-> severe_count,
         moderate_count |-> moderate_count,
         drowning_count |-> drowning_count,
         reef_cut_count |-> reef_cut_count,
         collision_count |-> collision_count,
         rip_current_count |-> rip_current_count,
         is_peak_season |-> IF current_month \in peak_months THEN 1 ELSE 0,
         incidents_per_year |-> total_incidents * 100,
         risk_score |-> risk_score,
         risk_level |-> IF risk_score <= 3300 THEN 0
                        ELSE IF risk_score <= 6600 THEN 1 ELSE 2]

\* extract_features_from_incidents(): the rows of the data frame, one per
\* site that has incidents
extract_features_from_incidents ==
    LET surf_spots == Distinct([k \in DOMAIN incidents |-> incidents[k].site])
        with_incidents ==
            SelectSeq(surf_spots,
                      LAMBDA spot : \E k \in DOMAIN incidents :
                                       incidents[k].site = spot)
    IN  [k \in DOMAIN with_incidents |-> TrainingRow(with_incidents[k])]

\* train_model.py extracts the training rows from the incident store
ExtractFeatures ==
    /\ call # None
    /\ The(call).fn = "extract_features_from_incidents"
    /\ The(call).out = None
    /\ call' = Some([The(call) EXCEPT !.out =
                  Some(extract_features_from_incidents)])
    /\ UNCHANGED <<dbvars, synth, feat, response, cursor, bpc, stdout, probe,
                   skill, rf_model, ended, before>>

\* a variant of the saved schema without its last column
feature_cols_nine ==
    << "total_incidents", "fatal_count", "severe_count", "moderate_count",
       "drowning_count", "reef_cut_count", "collision_count",
       "rip_current_count", "is_peak_season" >>

\* models/feature_cols.pkl: the list train_risk_model saved, in the order
\* of the columns the classifier was fitted on
feature_cols ==
    << "total_incidents", "fatal_count", "severe_count", "moderate_count",
       "drowning_count", "reef_cut_count", "collision_count",
       "rip_current_count", "is_peak_season", "incidents_per_year" >>

\* pd.DataFrame([features], columns=feature_cols): one row whose columns
\* are those of the list, in its order; a column the dict lacks is NaN and
\* a key of the dict that is no column is dropped
DataFrame(features, columns) ==
    [columns |-> columns,
     row |-> [k \in DOMAIN columns |->
                 IF columns[k] \in DOMAIN features
                 THEN features[columns[k]] ELSE "NaN"]]

\* what the classifier does with a feature row: it answers, or it raises
ClassifierAnswers ==
    {[raised |-> FALSE, level |-> out.level, proba |-> out.proba] :
        out \in ClassifierOutputs}
    \cup {[raised |-> TRUE]}

\* what rf_model.predict / predict_proba can do with a feature row: the
\* loaded forest answers as the function it is, or the call raises; with
\* the forest left open, any answer
Answers(features) ==
    IF rf_model = None THEN ClassifierAnswers
    ELSE LET out == Classify(The(rf_model), features)
         IN  {[raised |-> FALSE, level |-> out.level, proba |-> out.proba],
              [raised |-> TRUE]}

\* a variant that adds the stored riskScore of the spot to the boost
predict_risk_score_feedback(spot_name, answer, e) ==
    LET f == calculate_spot_features(spot_name)
        surf_spot == FindOneByName(surfspots, spot_name)
        stored == IF surf_spot = None THEN 0 ELSE The(surf_spot).riskScore
    IN  IF f.raised \/ answer.raised THEN [raised |-> TRUE]
        ELSE [raised |-> FALSE,
              prediction |-> ScoreFrom(answer.level, answer.proba,
                                       f.recent_hazard_boost + stored, e).result]

\* predict_risk_score(spot_name), given what the classifier does
predict_risk_score(spot_name, answer, e) ==
    LET f == calculate_spot_features(spot_name)
    IN  IF f.raised \/ answer.raised THEN [raised |-> TRUE]
        ELSE [raised |-> FALSE,
              prediction |-> ScoreFrom(answer.level, answer.proba,
                                       f.recent_hazard_boost, e).result]

\* the route handler predict_risk: the try block and the except block
PredictRisk ==
    /\ response = None
    /\ \E spot_name \in SpotNames, e \in FloatErr :
       \E answer \in Answers(calculate_spot_features(spot_name).features) :
        LET p == predict_risk_score(spot_name, answer, e)
            f == calculate_spot_features(spot_name)
        IN  response' =
                Some([spot_name |-> spot_name,
                      features |-> IF f.raised THEN None
                                   ELSE Some(f.features),
                      X |-> IF f.raised THEN None
                            ELSE Some(DataFrame(f.features, feature_cols)),
                      answer |-> answer,
                      status |-> IF p.raised THEN 500 ELSE 200,
                      body |-> IF p.raised
                               THEN [success |-> FALSE, message |-> "error"]
                               ELSE [success |-> TRUE, data |-> p.prediction]])
    /\ UNCHANGED <<dbvars, synth, feat, cursor, bpc, stdout, probe, skill,
                   call, rf_model, ended, before>>

\* the response is sent to the client
Respond ==
    /\ response # None
    /\ response' = None
    /\ UNCHANGED <<dbvars, synth, feat, cursor, bpc, stdout, probe, skill,
                   call, rf_model, ended, before>>

\* a variant in which the loop ends at the first error
CursorAfterErrorAbort(c) == <<>>

\* after the except block the for loop goes on with the next document
CursorAfterError(c) == Tail(c)

\* update_all_risk_scores is called: surf_spots = surf_spots_collection.find()
BatchStart ==
    /\ bpc = "idle"
    /\ bpc' = "loop"
    /\ cursor' = surfspots
    /\ stdout' = <<>>
    /\ before' = surfspots
    /\ UNCHANGED <<dbvars, synth, feat, response, probe, skill, call,
                   rf_model, ended>>

\* a variant that also resets totalIncidents
BatchUpdateDataWithTotal(prediction) ==
    [riskScore |-> prediction.risk_score,
     riskLevel |-> prediction.risk_level,
     flagColor |-> prediction.flag_color,
     lastUpdated |-> "update_all_risk_scores",
     totalIncidents |-> 1]

\* the $set document of update_one
BatchUpdateData(prediction) ==
    [riskScore |-> prediction.risk_score,
     riskLevel |-> prediction.risk_level,
     flagColor |-> prediction.flag_color,
     lastUpdated |-> "update_all_risk_scores"]

\* one iteration of the for loop: the try block (predict, update_one,
\* print) or, when one of them raises, the except block (print)
BatchStep ==
    /\ bpc = "loop"
    /\ cursor # <<>>
    /\ "name" \in DOMAIN Head(cursor)
    /\ \E write_raises \in BOOLEAN, e \in FloatErr :
       \E answer \in Answers(calculate_spot_features(Head(cursor).name).features) :
        LET spot == Head(cursor)
            p == predict_risk_score(spot.name, answer, e)
        IN  IF p.raised \/ write_raises
            THEN /\ stdout' = Append(stdout, [name |-> spot.name,
                                              line |-> "Error updating"])
                 /\ cursor' = CursorAfterError(cursor)
                 /\ UNCHANGED surfspots
            ELSE /\ surfspots' = UpdateOneSet(surfspots, spot._id,
                                              BatchUpdateData(p.prediction))
                 /\ stdout' = Append(stdout,
                                     [name |-> spot.name,
                                      line |-> "updated",
                                      risk_score |-> p.prediction.risk_score,
                                      flag_color |-> p.prediction.flag_color])
                 /\ cursor' = Tail(cursor)
    /\ UNCHANGED <<incidents, hazardreports, current_month, bpc, synth, feat,
                   response, probe, skill, call, rf_model, ended, before>>

\* an iteration on a document without 'name': spot['name'] raises KeyError
\* in the try block, the except block evaluates spot['name'] for its
\* message and raises KeyError again, which leaves the function
BatchEscape ==
    /\ bpc = "loop"
    /\ cursor # <<>>
    /\ "name" \notin DOMAIN Head(cursor)
    /\ bpc' = "raised"
    /\ ended' = LastTwo(Append(ended, "raised"))
    /\ UNCHANGED <<dbvars, cursor, stdout, synth, feat, response, probe,
                   skill, call, rf_model, before>>

\* the cursor is exhausted: the closing print, and the function returns
BatchDone ==
    /\ bpc = "loop"
    /\ cursor = <<>>
    /\ bpc' = "done"
    /\ ended' = LastTwo(Append(ended, "done"))
    /\ UNCHANGED <<dbvars, cursor, stdout, synth, feat, response, probe,
                   skill, call, rf_model, before>>

\* the process is stopped in the middle of the loop
BatchInterrupt ==
    /\ bpc = "loop"
    /\ bpc' = "idle"
    /\ cursor' = <<>>
    /\ ended' = LastTwo(Append(ended, "interrupted"))
    /\ UNCHANGED <<dbvars, stdout, synth, feat, response, probe, skill, call,
                   rf_model, before>>

\* the last call has ended and update_all_risk_scores can be called again
BatchAgain ==
    /\ bpc \in {"done", "raised"}
    /\ bpc' = "idle"
    /\ UNCHANGED <<dbvars, cursor, stdout, synth, feat, response, probe,
                   skill, call, rf_model, ended, before>>

\* the registries and outputs a run of update_all_risk_scores can leave
\* that has the documents of c still to visit: each is updated, or its
\* iteration raises and is reported.  The features of a spot depend on
\* the registry only through the _id of the spot, which no iteration
\* writes.
RECURSIVE BatchRuns(_, _, _)
BatchRuns(coll, c, out) ==
    IF c = <<>> THEN {[surfspots |-> coll, stdout |-> out]}
    ELSE LET spot == Head(c)
         IN  UNION
             {LET p == predict_risk_score(spot.name, answer, e)
              IN  IF p.raised \/ write_raises
                  THEN BatchRuns(coll, CursorAfterError(c),
                                 Append(out, [name |-> spot.name,
                                              line |-> "Error updating"]))
                  ELSE BatchRuns(UpdateOneSet(coll, spot._id,
                                              BatchUpdateData(p.prediction)),
                                 Tail(c),
                                 Append(out,
                                        [name |-> spot.name,
                                         line |-> "updated",
                                         risk_score |-> p.prediction.risk_score,
                                         flag_color |-> p.prediction.flag_color])) :
              write_raises \in BOOLEAN, e \in FloatErr,
              answer \in Answers(calculate_spot_features(spot.name).features)}

\* a whole run of update_all_risk_scores over a registry whose documents
\* all have a name: from the find() to the return
UpdateAllRiskScores ==
    /\ bpc = "idle"
    /\ skill = None
    /\ \A k \in DOMAIN surfspots : "name" \in DOMAIN surfspots[k]
    /\ \E run \in BatchRuns(surfspots, surfspots, <<>>) :
        /\ surfspots' = run.surfspots
        /\ stdout' = run.stdout
    /\ cursor' = <<>>
    /\ before' = surfspots
    /\ ended' = LastTwo(Append(ended, "done"))
    /\ UNCHANGED <<incidents, hazardreports, current_month, bpc, synth, feat,
                   response, probe, skill, call, rf_model>>

-----------------------------------------------------------------------------
(* calculate_skill_risk.py (two copies): thresholds per skill level *)

SkillLevels == {"beginner", "intermediate", "advanced"}

\* a variant whose beginner row has the cut points of the advanced row
SKILL_THRESHOLDS_lenient ==
    [beginner     |-> [low |-> 7000, medium |-> 8000],
     intermediate |-> [low |-> 6000, medium |-> 7200],
     advanced     |-> [low |-> 7000, medium |-> 8000]]

\* SKILL_THRESHOLDS of surfapp--ml-engine/calculate_skill_risk.py
SKILL_THRESHOLDS ==
    [beginner     |-> [low |-> 5000, medium |-> 6500],
     intermediate |-> [low |-> 6000, medium |-> 7200],
     advanced     |-> [low |-> 7000, medium |-> 8000]]

\* SKILL_THRESHOLDS of ml-model/calculate_skill_risk.py
SKILL_THRESHOLDS_formula ==
    [beginner     |-> [low |-> 5000, medium |-> 6500],
     intermediate |-> [low |-> 6000, medium |-> 7200],
     advanced     |-> [low |-> 7000, medium |-> 8000]]

\* a variant that reads the beginner row for every skill level
ThresholdsGetBeginner(table, skill_level) == table["beginner"]

\* SKILL_THRESHOLDS.get(skill_level, SKILL_THRESHOLDS['beginner'])
ThresholdsGet(table, skill_level) ==
    IF skill_level \in DOMAIN table THEN table[skill_level] ELSE table["beginner"]

\* a variant with the cut points excluded from the lower band
LevelAndFlagStrict(thresholds, score) ==
    LET level == IF score < thresholds.low THEN "Low"
                 ELSE IF score < thresholds.medium THEN "Medium"
                 ELSE "High"
    IN  [level |-> level, flag |-> LevelFlag[level]]

\* the if/elif/else of get_risk_level_and_flag
LevelAndFlag(thresholds, score) ==
    LET level == IF score <= thresholds.low THEN "Low"
                 ELSE IF score <= thresholds.medium THEN "Medium"
                 ELSE "High"
    IN  [level |-> level, flag |-> LevelFlag[level]]

\* get_risk_level_and_flag of surfapp--ml-engine/calculate_skill_risk.py
get_risk_level_and_flag(score, skill_level) ==
    LevelAndFlag(ThresholdsGet(SKILL_THRESHOLDS, skill_level), score)

\* get_risk_level_and_flag of ml-model/calculate_skill_risk.py
get_risk_level_and_flag_formula(score, skill_level) ==
    LevelAndFlag(ThresholdsGet(SKILL_THRESHOLDS_formula, skill_level), score)

\* the copy of get_risk_level_and_flag that a variant of the script calls
LevelAndFlagOf(variant, score, skill_level) ==
    IF variant = "manual"
    THEN get_risk_level_and_flag(score, skill_level)
    ELSE get_risk_level_and_flag_formula(score, skill_level)

Variants == {"manual", "formula"}

\* the scores drawn for get_risk_level_and_flag: 0.00, 0.01, ...
ProbeScores == {10 * h : h \in 0..MaxProbeScore}

\* skill levels drawn: the three of the table and one that is not in it
ProbeSkills == SkillLevels \cup {"expert"}

\* get_risk_level_and_flag applied to the drawn inputs
ProbeThreshold ==
    /\ probe # None
    /\ The(probe).out = None
    /\ probe' = Some([The(probe) EXCEPT !.out =
                   Some(LevelAndFlagOf(The(probe).variant, The(probe).score,
                                       The(probe).skill_level))])
    /\ UNCHANGED <<dbvars, synth, feat, response, cursor, bpc, stdout, skill,
                   call, rf_model, ended, before>>

\* the threshold sets of the pipeline: the fixed one of predict_risk_score
\* and, in each copy of the script, one per skill level asked for
ThresholdSets ==
    {[engine |-> "predict_risk_score"]}
    \cup [engine : {"get_risk_level_and_flag"}, variant : Variants,
          skill_level : ProbeSkills]

\* the level and flag a threshold set gives a score
LevelAndFlagIn(set, score) ==
    IF set.engine = "predict_risk_score" THEN FixedLevelAndFlag(score)
    ELSE LevelAndFlagOf(set.variant, score, set.skill_level)

\* how far the second drawn score lies above the first: 0.01, 0.5 or 3.0
ScoreSteps == {10, 500, 3000}

\* one threshold set is applied to the two drawn scores
CompareLevels ==
    /\ call # None
    /\ The(call).fn = "levels"
    /\ The(call).out = None
    /\ call' = Some([The(call) EXCEPT !.out =
                  Some(<<LevelAndFlagIn(The(call).set, The(call).scores[1]),
                         LevelAndFlagIn(The(call).set, The(call).scores[2])>>)])
    /\ UNCHANGED <<dbvars, synth, feat, response, cursor, bpc, stdout, probe,
                   skill, rf_model, ended, before>>

-----------------------------------------------------------------------------
(* surfapp--ml-engine/calculate_skill_risk.py: the manual scores *)

ManualRow(n, b, i, a) ==
    [spot_name |-> n, beginner |-> b, intermediate |-> i, advanced |-> a]

\* MANUAL_RISK_SCORES, in the order of the dict
MANUAL_RISK_SCORES ==
    << ManualRow("Hikkaduwa",   7500, 7500, 3000),
       ManualRow("Midigama",    7000, 7300, 4000),
       ManualRow("Mirissa",     6600, 6800, 5000),
       ManualRow("Unawatuna",   8000, 7400, 6000),
       ManualRow("Ahangama",    6000, 6500, 4000),
       ManualRow("Arugam Bay",  5500, 6300, 5000),
       ManualRow("Matara",      6200, 5500, 3000),
       ManualRow("Thalpe",      5800, 5800, 4000),
       ManualRow("Weligama",    6300, 6700, 4500),
       ManualRow("Kalpitiya",   3500, 4000, 3000),
       ManualRow("Point Pedro", 4000, 4500, 3500),
       ManualRow("Trincomalee", 4500, 5000, 4000) >>

-----------------------------------------------------------------------------
(* ml-model/calculate_skill_risk.py: scores from incident counts *)

DataRow(n, t, a, b, i) ==
    [spot_name |-> n, total |-> t, advanced |-> a, beginner |-> b,
     intermediate |-> i]

\* RISK_DATA, in the order of the dict
RISK_DATA ==
    << DataRow("Hikkaduwa",   425, 20, 142, 50),
       DataRow("Matara",      324,  5, 124, 14),
       DataRow("Trincomalee", 298,  5,  74, 19),
       DataRow("Arugam Bay",  293, 50,  69, 34),
       DataRow("Unawatuna",   292, 45, 102, 33),
       DataRow("Midigama",    256, 44,  63, 68),
       DataRow("Point Pedro", 239,  0,  82,  0),
       DataRow("Ahangama",    237, 31,  66, 54),
       DataRow("Mirissa",     224, 32,  55, 81),
       DataRow("Kalpitiya",   210,  0,  73,  0),
       DataRow("Thalpe",      209, 40,  62, 23),
       DataRow("Weligama",    200, 27,  87, 18) >>

\* max([data[skill] for data in RISK_DATA.values()])
MaxIncidents(skill_level) ==
    CHOOSE m \in {RISK_DATA[k][skill_level] : k \in DOMAIN RISK_DATA} :
        \A k \in DOMAIN RISK_DATA : RISK_DATA[k][skill_level] <= m

\* a variant that does not discount the advanced tier
SkillMultiplierFlat == [beginner |-> 15, intermediate |-> 10, advanced |-> 10]

\* the skill multipliers 1.5, 1.0 and 0.7, in tenths
SkillMultiplier == [beginner |-> 15, intermediate |-> 10, advanced |-> 7]

\* a variant without the cap at 10
calculate_risk_score_uncapped(incidents_count, max_incidents, multiplier10, e) ==
    IF max_incidents = 0 THEN 0
    ELSE LET num == incidents_count * multiplier10 * 1000
             lo == 10 * (num \div (10 * max_incidents))
             rest == num - lo * max_incidents
         IN  IF 2 * rest < 10 * max_incidents THEN lo
             ELSE IF 2 * rest > 10 * max_incidents THEN lo + 10
             ELSE IF e > 0 THEN lo + 10 ELSE lo

\* calculate_risk_score: min(10, count / max * 10 * multiplier) rounded to
\* 2 decimals; the multiplier is in tenths, the result in thousandths
calculate_risk_score(incidents_count, max_incidents, multiplier10, e) ==
    IF max_incidents = 0 THEN 0
    ELSE LET num == incidents_count * multiplier10 * 1000
             \* the score in thousandths is num / max_incidents
         IN  IF num >= 10000 * max_incidents THEN 10000
             ELSE LET lo == 10 * (num \div (10 * max_incidents))
                      rest == num - lo * max_incidents
                  IN  IF 2 * rest < 10 * max_incidents THEN lo
                      ELSE IF 2 * rest > 10 * max_incidents THEN lo + 10
                      ELSE IF e > 0 THEN lo + 10 ELSE lo

\* calculate_risk_score applied to the drawn counts with the multiplier
\* of the drawn skill level
CalculateRiskScore ==
    /\ call # None
    /\ The(call).fn = "calculate_risk_score"
    /\ The(call).out = None
    /\ \E e \in FloatErr :
        call' = Some([The(call) EXCEPT !.out =
                    Some(calculate_risk_score(The(call).incidents_count,
                                              The(call).max_incidents,
                                              SkillMultiplier[The(call).skill_level],
                                              e))])
    /\ UNCHANGED <<dbvars, synth, feat, response, cursor, bpc, stdout, probe,
                   skill, rf_model, ended, before>>

-----------------------------------------------------------------------------
(* calculate_skill_based_risks, both copies *)

\* the table a variant iterates over
TableOf(variant) == IF variant = "manual" THEN MANUAL_RISK_SCORES ELSE RISK_DATA

\* the score of one skill level for one row of the table
TierScore(variant, row, skill_level, e) ==
    IF variant = "manual" THEN row[skill_level]
    ELSE calculate_risk_score(row[skill_level], MaxIncidents(skill_level),
                              SkillMultiplier[skill_level], e)

\* a variant that weighs the three skill levels 0.4, 0.4, 0.2
OverallScoreEven(beginner_score, intermediate_score, advanced_score) ==
    (beginner_score * 4 + intermediate_score * 4 + advanced_score * 2) \div 10

\* beginner_score * 0.5 + intermediate_score * 0.3 + advanced_score * 0.2
OverallScore(beginner_score, intermediate_score, advanced_score) ==
    (beginner_score * 5 + intermediate_score * 3 + advanced_score * 2) \div 10

\* the body of the for loop: the result record of one row
SkillResult(variant, row, e) ==
    LET beginner_score == TierScore(variant, row, "beginner", e)
        intermediate_score == TierScore(variant, row, "intermediate", e)
        advanced_score == TierScore(variant, row, "advanced", e)
        b == LevelAndFlagOf(variant, beginner_score, "beginner")
        i == LevelAndFlagOf(variant, intermediate_score, "intermediate")
        a == LevelAndFlagOf(variant, advanced_score, "advanced")
        overall_score == OverallScore(beginner_score, intermediate_score,
                                      advanced_score)
        o == LevelAndFlagOf(variant, overall_score, "beginner")
        tier(sk, sc, lf) ==
            [incidents |-> IF variant = "manual" THEN 0 ELSE row[sk],
             score |-> sc, level |-> lf.level, flag |-> lf.flag]
    IN  [spot_name |-> row.spot_name,
         total_incidents |-> IF variant = "manual" THEN None
                             ELSE Some(row.total),
         overall |-> [score |-> Round2(overall_score, e),
                      level |-> o.level, flag |-> o.flag],
         beginner |-> tier("beginner", beginner_score, b),
         intermediate |-> tier("intermediate", intermediate_score, i),
         advanced |-> tier("advanced", advanced_score, a)]

\* update_database_with_skill_risks is started and calls
\* calculate_skill_based_risks: results = []
SkillStart ==
    /\ skill = None
    /\ \E v \in Variants :
        skill' = Some([variant |-> v, results |-> <<>>, pc |-> "calculate",
                       updated |-> 0, verified |-> None])
    /\ UNCHANGED <<dbvars, synth, feat, response, cursor, bpc, stdout, probe,
                   call, rf_model, ended, before>>

\* calculate_skill_based_risks, one iteration of the for loop:
\* results.append(result)
SkillStep ==
    /\ skill # None
    /\ The(skill).pc = "calculate"
    /\ Len(The(skill).results) < Len(TableOf(The(skill).variant))
    /\ \E e \in FloatErr :
        LET row == TableOf(The(skill).variant)[Len(The(skill).results) + 1]
        IN  skill' = Some([The(skill) EXCEPT !.results =
                        Append(@, SkillResult(The(skill).variant, row, e))])
    /\ UNCHANGED <<dbvars, synth, feat, response, cursor, bpc, stdout, probe,
                   call, rf_model, ended, before>>

\* calculate_skill_based_risks: return results
SkillReturn ==
    /\ skill # None
    /\ The(skill).pc = "calculate"
    /\ Len(The(skill).results) = Len(TableOf(The(skill).variant))
    /\ skill' = Some([The(skill) EXCEPT !.pc = "update"])
    /\ UNCHANGED <<dbvars, synth, feat, response, cursor, bpc, stdout, probe,
                   call, rf_model, ended, before>>

\* the dict expected of verify_expected_results, for the two skill levels
\* it compares list by list
expected ==
    [beginner |->
        [green |-> {"Kalpitiya", "Point Pedro", "Trincomalee"},
         yellow |-> {"Ahangama", "Arugam Bay", "Matara", "Thalpe", "Weligama"},
         red |-> {"Hikkaduwa", "Midigama", "Mirissa", "Unawatuna"}],
     intermediate |->
        [green |-> {"Kalpitiya", "Point Pedro", "Trincomalee", "Matara",
                    "Thalpe"},
         yellow |-> {"Ahangama", "Arugam Bay", "Mirissa", "Weligama"},
         red |-> {"Hikkaduwa", "Midigama", "Unawatuna"}]]

\* the spots of the results that have the flag for the skill level; the
\* names of the table are distinct, so the sorted lists are equal exactly
\* when these sets are
SpotsFlagged(results, skill_level, flag) ==
    {results[k].spot_name : k \in {j \in DOMAIN results :
                                      results[j][skill_level].flag = flag}}

\* verify_expected_results: all_correct
verify_expected_results(results) ==
    /\ \A skill_level \in {"beginner", "intermediate"} :
        \A flag \in {"green", "yellow", "red"} :
            SpotsFlagged(results, skill_level, flag) = expected[skill_level][flag]
    /\ \A k \in DOMAIN results : results[k].advanced.flag = "green"

\* verify_expected_results is run by the script of the manual scores; it
\* calls calculate_skill_based_risks itself and gets the same results
SkillVerify ==
    /\ skill # None
    /\ The(skill).variant = "manual"
    /\ The(skill).pc = "update"
    /\ The(skill).updated = 0
    /\ The(skill).verified = None
    /\ skill' = Some([The(skill) EXCEPT !.verified =
                   Some(verify_expected_results(The(skill).results))])
    /\ UNCHANGED <<dbvars, synth, feat, response, cursor, bpc, stdout, probe,
                   call, rf_model, ended, before>>

\* a variant that also rewrites the location of the spot
SkillUpdateDataWithLocation(variant, result) ==
    LET tier(sk) == [incidents |-> result[sk].incidents,
                     riskScore |-> result[sk].score,
                     riskLevel |-> result[sk].level,
                     flagColor |-> result[sk].flag]
    IN  [riskScore |-> result.overall.score,
         riskLevel |-> result.overall.level,
         flagColor |-> result.overall.flag,
         location |-> "Sri Lanka",
         lastUpdated |-> "update_database_with_skill_risks",
         skillLevelRisks |->
             Some([beginner |-> tier("beginner"),
                   intermediate |-> tier("intermediate"),
                   advanced |-> tier("advanced")])]

\* a variant that writes the beginner flag next to the overall level
SkillUpdateDataBeginnerFlag(variant, result) ==
    LET tier(sk) == [incidents |-> result[sk].incidents,
                     riskScore |-> result[sk].score,
                     riskLevel |-> result[sk].level,
                     flagColor |-> result[sk].flag]
        common == [riskScore |-> result.overall.score,
                   riskLevel |-> result.overall.level,
                   flagColor |-> result["beginner"].flag,
                   lastUpdated |-> "update_database_with_skill_risks",
                   skillLevelRisks |->
                       Some([beginner |-> tier("beginner"),
                             intermediate |-> tier("intermediate"),
                             advanced |-> tier("advanced")])]
    IN  IF variant = "manual" THEN common
        ELSE [f \in DOMAIN common \cup {"totalIncidents"} |->
                 IF f = "totalIncidents" THEN The(result.total_incidents)
                 ELSE common[f]]

\* the update_data dict of update_database_with_skill_risks
SkillUpdateData(variant, result) ==
    LET tier(sk) == [incidents |-> result[sk].incidents,
                     riskScore |-> result[sk].score,
                     riskLevel |-> result[sk].level,
                     flagColor |-> result[sk].flag]
        common == [riskScore |-> result.overall.score,
                   riskLevel |-> result.overall.level,
                   flagColor |-> result.overall.flag,
                   lastUpdated |-> "update_database_with_skill_risks",
                   skillLevelRisks |->
                       Some([beginner |-> tier("beginner"),
                             intermediate |-> tier("intermediate"),
                             advanced |-> tier("advanced")])]
    IN  IF variant = "manual" THEN common
        ELSE [f \in DOMAIN common \cup {"totalIncidents"} |->
                 IF f = "totalIncidents" THEN The(result.total_incidents)
                 ELSE common[f]]

\* update_database_with_skill_risks, one iteration of its for loop: the
\* spot is looked up by name and skipped when absent, updated otherwise
SkillUpdateStep ==
    /\ skill # None
    /\ The(skill).pc = "update"
    /\ The(skill).updated < Len(The(skill).results)
    /\ LET result == The(skill).results[The(skill).updated + 1]
           surf_spot == FindOneByName(surfspots, result.spot_name)
       IN  surfspots' =
               IF surf_spot = None THEN surfspots
               ELSE UpdateOneSet(surfspots, The(surf_spot)._id,
                                 SkillUpdateData(The(skill).variant, result))
    /\ skill' = Some([The(skill) EXCEPT !.updated = @ + 1])
    /\ UNCHANGED <<incidents, hazardreports, current_month, synth, feat,
                   response, cursor, bpc, stdout, probe, call, rf_model,
                   ended, before>>

\* the registries a run of update_database_with_skill_risks can leave,
\* from row k of the table on: the row's spot is skipped or updated and
\* the loop goes on, or find_one or update_one raises, which nothing
\* catches, and the run ends with the spots updated so far
RECURSIVE SkillRuns(_, _, _)
SkillRuns(variant, coll, k) ==
    IF k > Len(TableOf(variant)) THEN {coll}
    ELSE LET row == TableOf(variant)[k]
             surf_spot == FindOneByName(coll, row.spot_name)
         IN  IF surf_spot = None THEN {coll} \cup SkillRuns(variant, coll, k + 1)
             ELSE {coll} \cup
                  UNION {SkillRuns(variant,
                                   UpdateOneSet(coll, The(surf_spot)._id,
                                                SkillUpdateData(variant,
                                                    SkillResult(variant, row, e))),
                                   k + 1) :
                         e \in FloatErr}

\* a whole run of update_database_with_skill_risks, of either copy
UpdateDatabaseWithSkillRisks ==
    /\ skill = None
    /\ bpc = "idle"
    /\ \E variant \in Variants :
        surfspots' \in SkillRuns(variant, surfspots, 1)
    /\ UNCHANGED <<incidents, hazardreports, current_month, synth, feat,
                   response, cursor, bpc, stdout, probe, skill, call,
                   rf_model, ended, before>>

\* update_database_with_skill_risks returns
SkillUpdateDone ==
    /\ skill # None
    /\ The(skill).pc = "update"
    /\ The(skill).updated = Len(The(skill).results)
    /\ skill' = None
    /\ UNCHANGED <<dbvars, synth, feat, response, cursor, bpc, stdout, probe,
                   call, rf_model, ended, before>>

\* one copy of get_risk_level_and_flag is applied to the drawn score once
\* for each skill level of its table
CompareTiers ==
    /\ call # None
    /\ The(call).fn = "tiers"
    /\ The(call).out = None
    /\ call' = Some([The(call) EXCEPT !.out =
                  Some([sk \in SkillLevels |->
                           LevelAndFlagOf(The(call).variant, The(call).score,
                                          sk)])])
    /\ UNCHANGED <<dbvars, synth, feat, response, cursor, bpc, stdout, probe,
                   skill, rf_model, ended, before>>

-----------------------------------------------------------------------------
(* Initial states *)

\* nothing has run yet
InitIdle ==
    /\ feat = None
    /\ response = None
    /\ cursor = <<>>
    /\ bpc = "idle"
    /\ stdout = <<>>
    /\ skill = None
    /\ rf_model = None
    /\ ended = <<>>
    /\ before = <<>>

\* an empty database
InitEmptyDB ==
    /\ incidents = <<>>
    /\ surfspots = <<>>
    /\ hazardreports = <<>>
    /\ current_month = 1

\* the inputs of the score arithmetic are drawn
InitScore ==
    /\ InitEmptyDB
    /\ InitIdle
    /\ call = None
    /\ probe = None
    /\ synth \in {Some([level |-> out.level, proba |-> out.proba,
                        boost |-> b, run |-> None]) :
                     out \in ClassifierOutputs, b \in DrawnBoosts}

NextScore == Synthesize

SpecScore == InitScore /\ [][NextScore]_vars

\* one classifier answer and two boosts, the second the larger, are drawn
InitBoosts ==
    /\ InitEmptyDB
    /\ InitIdle
    /\ synth = None
    /\ probe = None
    /\ call \in {Some([fn |-> "boosts", level |-> o.level, proba |-> o.proba,
                       boosts |-> <<b, b + d>>, out |-> None]) :
                    o \in ClassifierOutputs, b \in DrawnBoosts,
                    d \in BoostSteps}

NextBoosts == CompareBoosts

SpecBoosts == InitBoosts /\ [][NextBoosts]_vars

\* the incident documents drawn for the stores of the training script:
\* two sites, two severities, and a month that is missing, January or June
TrainingIncidents ==
    {Incident(site, severity,
              IF severity = "fatal" THEN {"drowning"} ELSE {}, month) :
        site \in {"Hikkaduwa", "Midigama"}, severity \in {"fatal", "minor"},
        month \in {0, 1, 6}}

\* incidents were imported and the registry initialized; no hazard report
\* was filed; the training script and the feature extraction of the
\* service run in the same month, January or June
InitTraining ==
    /\ InitIdle
    /\ synth = None
    /\ probe = None
    /\ incidents \in SeqsUpTo(TrainingIncidents, MaxRows)
    /\ surfspots = initialize_surf_spots
    /\ hazardreports = <<>>
    /\ current_month \in {1, 6}
    /\ call = Some([fn |-> "extract_features_from_incidents", out |-> None])

NextTraining ==
    \/ ExtractFeatures
    \/ CalculateSpotFeatures

SpecTraining == InitTraining /\ [][NextTraining]_vars

\* the inputs of get_risk_level_and_flag are drawn
InitThresholds ==
    /\ InitEmptyDB
    /\ InitIdle
    /\ call = None
    /\ synth = None
    /\ probe \in {Some([variant |-> v, score |-> sc, skill_level |-> sk,
                        out |-> None]) :
                     v \in Variants, sc \in ProbeScores, sk \in ProbeSkills}

NextThresholds == ProbeThreshold

SpecThresholds == InitThresholds /\ [][NextThresholds]_vars

\* one threshold set and two scores are drawn
InitLevels ==
    /\ InitEmptyDB
    /\ InitIdle
    /\ synth = None
    /\ probe = None
    /\ call \in {Some([fn |-> "levels", set |-> ts, scores |-> <<sc, sc + d>>,
                       out |-> None]) :
                    ts \in ThresholdSets, sc \in ProbeScores, d \in ScoreSteps}

NextLevels == CompareLevels

SpecLevels == InitLevels /\ [][NextLevels]_vars

\* one copy of the script and one score are drawn
InitTiers ==
    /\ InitEmptyDB
    /\ InitIdle
    /\ synth = None
    /\ probe = None
    /\ call \in {Some([fn |-> "tiers", variant |-> v, score |-> sc,
                       out |-> None]) :
                    v \in Variants, sc \in ProbeScores}

NextTiers == CompareTiers

SpecTiers == InitTiers /\ [][NextTiers]_vars

\* the arguments of calculate_risk_score are drawn
InitFormula ==
    /\ InitEmptyDB
    /\ InitIdle
    /\ synth = None
    /\ probe = None
    /\ call \in {Some([fn |-> "calculate_risk_score", incidents_count |-> c,
                       max_incidents |-> m, skill_level |-> sk, out |-> None]) :
                    c \in 0..MaxCount, m \in 0..MaxCount, sk \in SkillLevels}

NextFormula == CalculateRiskScore

SpecFormula == InitFormula /\ [][NextFormula]_vars

\* the registries drawn: any selection of the tracked spots, each document
\* as initialize_surf_spots leaves it
Registries ==
    {SelectSeq([k \in DOMAIN TrackedSpots |-> NewSpotDoc(TrackedSpots[k], 0)],
               LAMBDA d : d.name \in present) :
        present \in SUBSET {TrackedSpots[k] : k \in DOMAIN TrackedSpots}}

\* feature extraction runs against a drawn database
InitFeatures ==
    /\ InitIdle
    /\ call = None
    /\ synth = None
    /\ probe = None
    /\ incidents \in IncidentStores
    /\ hazardreports \in SeqsUpTo(HazardReports, MaxReports)
    /\ current_month = 1
    /\ surfspots \in Registries

NextFeatures == CalculateSpotFeatures

SpecFeatures == InitFeatures /\ [][NextFeatures]_vars

\* the API and the batch run against a sample database
InitService ==
    /\ InitIdle
    /\ call = None
    /\ synth = None
    /\ probe = None
    /\ incidents \in IncidentStores
    /\ hazardreports \in ReportStores
    /\ current_month = 1
    /\ surfspots \in Registries

Init == InitService

Next ==
    \/ PredictRisk
    \/ Respond

Spec == Init /\ [][Next]_vars

NextBatch ==
    \/ BatchStart
    \/ BatchStep
    \/ BatchDone

SpecBatch == InitService /\ [][NextBatch]_vars

\* the registries with a document without a name put in at some position
MalformedRegistries ==
    UNION {{[k \in 1..(Len(r) + 1) |->
                IF k < at THEN r[k]
                ELSE IF k = at THEN NamelessDoc ELSE r[k - 1]] :
               at \in 1..(Len(r) + 1)} :
           r \in Registries}

\* the batch runs against a registry that may hold a malformed document
InitBatchAny ==
    /\ InitIdle
    /\ call = None
    /\ synth = None
    /\ probe = None
    /\ incidents \in IncidentStores
    /\ hazardreports \in ReportStores
    /\ current_month = 1
    /\ surfspots \in Registries \cup MalformedRegistries

NextBatchAny ==
    \/ BatchStart
    \/ BatchStep
    \/ BatchEscape
    \/ BatchDone

SpecBatchAny == InitBatchAny /\ [][NextBatchAny]_vars

\* the API and repeated, possibly interrupted, batch runs with a loaded
\* forest against a sample database that nothing else writes
InitPipeline ==
    /\ feat = None
    /\ response = None
    /\ cursor = <<>>
    /\ bpc = "idle"
    /\ stdout = <<>>
    /\ skill = None
    /\ ended = <<>>
    /\ before = <<>>
    /\ call = None
    /\ synth = None
    /\ probe = None
    /\ rf_model \in {Some(c) : c \in Classifiers}
    /\ incidents \in IncidentStores
    /\ hazardreports \in ReportStores
    /\ current_month = 1
    /\ surfspots \in Registries

NextPipeline ==
    \/ PredictRisk
    \/ Respond
    \/ BatchStart
    \/ BatchStep
    \/ BatchDone
    \/ BatchInterrupt
    \/ BatchAgain

SpecPipeline == InitPipeline /\ [][NextPipeline]_vars

\* the import script has run on a sample of rows; then the three writers
\* of the registry run one after the other, in any order and any number
\* of times, each run one step, with a loaded forest
InitRegistry ==
    /\ feat = None
    /\ response = None
    /\ cursor = <<>>
    /\ bpc = "idle"
    /\ stdout = <<>>
    /\ skill = None
    /\ ended = <<>>
    /\ before = <<>>
    /\ call = None
    /\ synth = None
    /\ probe = None
    /\ rf_model \in {Some(c) : c \in Classifiers}
    /\ incidents = SampleIncidents
    /\ hazardreports \in ReportStores
    /\ current_month = 1
    /\ surfspots = initialize_surf_spots

NextRegistry ==
    \/ InitializeSurfSpots
    \/ UpdateAllRiskScores
    \/ UpdateDatabaseWithSkillRisks

SpecRegistry == InitRegistry /\ [][NextRegistry]_vars

\* the skill scripts run against a drawn registry
InitSkill ==
    /\ InitIdle
    /\ call = None
    /\ synth = None
    /\ probe = None
    /\ incidents = <<>>
    /\ hazardreports = <<>>
    /\ current_month = 1
    /\ surfspots \in Registries

NextSkill ==
    \/ SkillStart
    \/ SkillStep
    \/ SkillReturn
    \/ SkillVerify
    \/ SkillUpdateStep
    \/ SkillUpdateDone

SpecSkill == InitSkill /\ [][NextSkill]_vars

\* the score arithmetic has run on the drawn inputs
Synthesized == synth # None /\ The(synth).run # None

SynthRun == The(The(synth).run)

-----------------------------------------------------------------------------
(* Claims about the score arithmetic *)

\* C1: for every predicted level, confidence and boost the returned
\* risk_score lies in [0, 10].
C1_ScoreInRange ==
    Synthesized =>
        /\ SynthRun.result.risk_score >= 0
        /\ SynthRun.result.risk_score <= 10000

\* C1 witness: level High with the largest drawn boost is clamped to 10.
C1_Witness ==
    /\ Synthesized
    /\ The(synth).level = 2
    /\ The(synth).boost = 500 * MaxBoostHalves
    /\ The(synth).boost > 10000
    /\ SynthRun.result.risk_score = 10000

\* C2: the base score is 3.33 for level 0, 6.66 for level 1 and 10.0 for
\* level 2.
C2_BaseScoreExact ==
    Synthesized =>
        /\ The(synth).level = 0 => SynthRun.base_score = 3330
        /\ The(synth).level = 1 => SynthRun.base_score = 6660
        /\ The(synth).level = 2 => SynthRun.base_score = 10000

\* C3: the clamped score is mapped by the fixed thresholds 3.3 and 6.6.
C3_FixedThresholds ==
    Synthesized =>
        LET s == SynthRun.clamped
            r == SynthRun.result
        IN  /\ s <= 3300 => r.risk_level = "Low" /\ r.flag_color = "green"
            /\ (s > 3300 /\ s <= 6600) =>
                   r.risk_level = "Medium" /\ r.flag_color = "yellow"
            /\ s > 6600 => r.risk_level = "High" /\ r.flag_color = "red"

\* C3 witness: a score between 3.3 and 5.0 is Medium, where the beginner
\* row of the skill table would say Low.
C3_Witness ==
    /\ Synthesized
    /\ SynthRun.clamped > 3300
    /\ SynthRun.clamped <= 5000
    /\ SynthRun.result.risk_level = "Medium"

-----------------------------------------------------------------------------
(* Claims about the skill thresholds and the weighted overall score *)

\* get_risk_level_and_flag has run on the drawn inputs
Probed == probe # None /\ The(probe).out # None

\* the cut points the documentation gives, in thousandths
DocumentedCuts(skill_level) ==
    IF skill_level = "beginner" THEN <<5000, 6500>>
    ELSE IF skill_level = "intermediate" THEN <<6000, 7200>>
    ELSE <<7000, 8000>>

\* C4: each tier's table is applied with inclusive upper cut points
\* (beginner 5.0 / 6.5, intermediate 6.0 / 7.2, advanced 7.0 / 8.0), and in
\* every tier the Low cut point is below the Medium one.
C4_TierCutPoints ==
    /\ \A t \in SkillLevels :
        /\ SKILL_THRESHOLDS[t].low < SKILL_THRESHOLDS[t].medium
        /\ SKILL_THRESHOLDS_formula[t].low < SKILL_THRESHOLDS_formula[t].medium
    /\ (Probed /\ The(probe).skill_level \in SkillLevels) =>
        LET sc == The(probe).score
            cuts == DocumentedCuts(The(probe).skill_level)
            level == The(The(probe).out).level
        IN  /\ sc <= cuts[1] => level = "Low"
            /\ (sc > cuts[1] /\ sc <= cuts[2]) => level = "Medium"
            /\ sc > cuts[2] => level = "High"
            /\ (The(probe).skill_level = "beginner" /\ sc = 5000) => level = "Low"
            /\ (The(probe).skill_level = "beginner" /\ sc = 5010) => level = "Medium"
            /\ (The(probe).skill_level = "beginner" /\ sc = 6500) => level = "Medium"
            /\ (The(probe).skill_level = "beginner" /\ sc = 6510) => level = "High"

\* C4 witness: beginner at exactly 5.0 has been classified Low.
C4_Witness ==
    /\ Probed
    /\ The(probe).skill_level = "beginner"
    /\ The(probe).score = 5000
    /\ The(The(probe).out).level = "Low"

\* the result records calculate_skill_based_risks has appended so far
SkillResults == IF skill = None THEN <<>> ELSE The(skill).results

\* C5: the reported overall score is 0.5 * beginner + 0.3 * intermediate +
\* 0.2 * advanced of the reported tier scores rounded to 2 decimals, its
\* level and flag come from the beginner table, and 7.5 / 7.5 / 3.0 gives
\* 6.6 and High / red.
C5_OverallWeighted ==
    \A k \in DOMAIN SkillResults :
        LET r == SkillResults[k]
            \* ten times the weighted sum in thousandths
            w10 == 5 * r.beginner.score + 3 * r.intermediate.score
                       + 2 * r.advanced.score
            level == IF w10 <= 50000 THEN "Low"
                     ELSE IF w10 <= 65000 THEN "Medium" ELSE "High"
        IN  /\ r.overall.score % 10 = 0
            /\ 10 * r.overall.score - w10 <= 50
            /\ w10 - 10 * r.overall.score <= 50
            /\ r.overall.level = level
            /\ r.overall.flag = LevelFlag[level]
            /\ (r.beginner.score = 7500 /\ r.intermediate.score = 7500
                    /\ r.advanced.score = 3000) =>
                   /\ r.overall.score = 6600
                   /\ r.overall.level = "High"
                   /\ r.overall.flag = "red"

\* C5 witness: the row 7.5 / 7.5 / 3.0 has been computed and reported as
\* 6.6, High, red.
C5_Witness ==
    \E k \in DOMAIN SkillResults :
        /\ SkillResults[k].beginner.score = 7500
        /\ SkillResults[k].intermediate.score = 7500
        /\ SkillResults[k].advanced.score = 3000
        /\ SkillResults[k].overall.score = 6600
        /\ SkillResults[k].overall.level = "High"
        /\ SkillResults[k].overall.flag = "red"

\* C6: the overall level of a location is never below its beginner level.
C6_OverallNotBelowBeginner ==
    \A k \in DOMAIN SkillResults :
        LevelRank[SkillResults[k].overall.level]
            >= LevelRank[SkillResults[k].beginner.level]

-----------------------------------------------------------------------------
(* Claims about feature extraction *)

FeatOut == The(feat).out

\* the registry holds a document of the location asked for
InRegistry(spot_name) == \E k \in DOMAIN surfspots : surfspots[k].name = spot_name

\* positions of the reports of a location that are at most 24 hours old, not
\* rejected, and of the given severities
Counted(spot_name, severities) ==
    {k \in DOMAIN hazardreports :
        /\ hazardreports[k].surfSpot = SpotId(spot_name)
        /\ hazardreports[k].age <= 24
        /\ hazardreports[k].status # "rejected"
        /\ hazardreports[k].severity \in severities}

\* C7: for a location of the registry the recency boost is 2.0 per high,
\* 1.0 per medium and 0.5 per other report among its reports of the last
\* 24 hours that are not rejected; one high report alone gives 2.0.
C7_RecencyBoost ==
    (feat # None /\ InRegistry(The(feat).spot_name)) =>
        LET n == The(feat).spot_name
        IN  /\ ~FeatOut.raised
            /\ FeatOut.recent_hazard_boost =
                   2000 * Cardinality(Counted(n, {"high"}))
                   + 1000 * Cardinality(Counted(n, {"medium"}))
                   + 500 * Cardinality(Counted(n, ReportSeverities \ {"high", "medium"}))
            /\ (Cardinality(Counted(n, ReportSeverities)) = 1
                    /\ Cardinality(Counted(n, {"high"})) = 1) =>
                   FeatOut.recent_hazard_boost = 2000

\* C7 witness: the location has a recent high report that counts and a
\* rejected one that does not, and its boost is 2.0.
C7_Witness ==
    /\ feat # None
    /\ InRegistry(The(feat).spot_name)
    /\ Len(hazardreports) = 2
    /\ \A k \in DOMAIN hazardreports :
        /\ hazardreports[k].surfSpot = SpotId(The(feat).spot_name)
        /\ hazardreports[k].severity = "high"
        /\ hazardreports[k].age <= 24
    /\ hazardreports[1].status = "rejected"
    /\ hazardreports[2].status # "rejected"
    /\ FeatOut.recent_hazard_boost = 2000

\* C8: for a location without a registry document calculate_spot_features
\* does not fail and returns the features of the incident store with a
\* recency boost of 0, whatever hazard reports exist.
C8_AbsentSpotNoBoost ==
    (feat # None /\ ~InRegistry(The(feat).spot_name)) =>
        /\ ~FeatOut.raised
        /\ FeatOut.recent_hazard_boost = 0
        /\ FeatOut.features.total_incidents =
               1000 * Cardinality({k \in DOMAIN incidents :
                                      incidents[k].site = The(feat).spot_name})
        /\ FeatOut.features.incidents_per_year =
               100 * Cardinality({k \in DOMAIN incidents :
                                     incidents[k].site = The(feat).spot_name})

\* C8 witness: a location with incidents and with recent reports filed
\* under its _id, but without a registry document, gets boost 0.
C8_Witness ==
    /\ feat # None
    /\ ~InRegistry(The(feat).spot_name)
    /\ \E k \in DOMAIN hazardreports :
        /\ hazardreports[k].surfSpot = SpotId(The(feat).spot_name)
        /\ hazardreports[k].age <= 24
        /\ hazardreports[k].status # "rejected"
    /\ \E k \in DOMAIN incidents : incidents[k].site = The(feat).spot_name
    /\ ~FeatOut.raised
    /\ FeatOut.recent_hazard_boost = 0
    /\ FeatOut.features.total_incidents > 0

-----------------------------------------------------------------------------
(* Claims about the API and the batch updater *)

\* C9: in single-location mode a location identifier without a registry
\* document yields an error (success = false), never a RiskResult.
C9_AbsentSpotIsError ==
    (response # None /\ ~InRegistry(The(response).spot_name)) =>
        The(response).body.success = FALSE

\* C9 as amended: for a location identifier without a registry document the
\* handler answers success = true with a result computed without recency
\* boost, unless the classifier raises.
C9_AbsentSpotIsScored ==
    (response # None /\ ~InRegistry(The(response).spot_name)) =>
        LET r == The(response)
            conf == IF r.answer.level >= Len(r.answer.proba)
                    THEN r.answer.proba[1]
                    ELSE r.answer.proba[r.answer.level + 1]
            sum == (r.answer.level + 1) * BaseStep + 2 * (conf - 500)
        IN  /\ r.body.success = ~r.answer.raised
            /\ r.body.success =>
                /\ r.status = 200
                /\ r.body.data.has_recent_hazards = FALSE
                /\ r.body.data.risk_score - Min(sum, ScoreMax) \in -5..5

\* C9 witness: a location that has incidents and reports but no registry
\* document has been answered with success = true.
C9_Witness ==
    /\ response # None
    /\ ~InRegistry(The(response).spot_name)
    /\ \E k \in DOMAIN incidents : incidents[k].site = The(response).spot_name
    /\ \E k \in DOMAIN hazardreports :
        /\ hazardreports[k].surfSpot = SpotId(The(response).spot_name)
        /\ hazardreports[k].status # "rejected"
    /\ The(response).body.success = TRUE
    /\ The(response).status = 200

\* the lines of the current run that report an error
ErrorLines == {k \in DOMAIN stdout : stdout[k].line = "Error updating"}

\* the document initialize_surf_spots left has not been written
Untouched(doc) ==
    /\ doc.riskScore = 0
    /\ doc.riskLevel = "Low"
    /\ doc.flagColor = "green"
    /\ doc.lastUpdated = "initialize_surf_spots"

\* C10: update_all_risk_scores attempts every location of the registry
\* exactly once, in order, and never stops early; a location whose scoring
\* failed keeps its stored risk fields, every other location is written
\* with its prediction, and with one failure among N locations the run
\* reports N - 1 successes and 1 failure.
C10_BatchIsolatesFailures ==
    /\ bpc # "idle" =>
        /\ Len(stdout) + Len(cursor) = Len(surfspots)
        /\ \A k \in DOMAIN stdout :
            /\ stdout[k].name = surfspots[k].name
            /\ k \in ErrorLines => Untouched(surfspots[k])
            /\ k \notin ErrorLines =>
                /\ surfspots[k].riskScore = stdout[k].risk_score
                /\ surfspots[k].flagColor = stdout[k].flag_color
                /\ surfspots[k].lastUpdated = "update_all_risk_scores"
        /\ \A k \in DOMAIN cursor :
            Untouched(surfspots[Len(stdout) + k])
    /\ bpc = "done" =>
        /\ Len(stdout) = Len(surfspots)
        /\ Cardinality(ErrorLines) = 1 =>
               Cardinality(DOMAIN stdout \ ErrorLines) = Len(surfspots) - 1

\* C10 witness: a finished run over three locations in which the second
\* failed and the first and the third were written.
C10_Witness ==
    /\ bpc = "done"
    /\ Len(surfspots) = 3
    /\ ErrorLines = {2}
    /\ Untouched(surfspots[2])
    /\ ~Untouched(surfspots[1])
    /\ ~Untouched(surfspots[3])

\* C11: no error raised while a location is processed, a document without
\* a name included, ever leaves update_all_risk_scores: every call returns
\* normally.
C11_NoErrorEscapes == bpc # "raised"

\* the risk fields of a registry document
RiskFields(doc) ==
    [riskScore |-> doc.riskScore, riskLevel |-> doc.riskLevel,
     flagColor |-> doc.flagColor]

\* the lines of the current run that report a written location
UpdatedLines == {k \in DOMAIN stdout : stdout[k].line = "updated"}

\* the document has been written by some run of update_all_risk_scores
BatchWritten(doc) == doc.lastUpdated = "update_all_risk_scores"

\* C12: with incidents, hazard reports, classifier and clock unchanged, a
\* run of update_all_risk_scores that writes a location an earlier run has
\* written stores the same risk score, level and flag again; what the
\* earlier run stored is not an input of the later one.
C12_RerunWritesTheSame ==
    bpc \in {"loop", "done"} =>
        \A k \in UpdatedLines :
            BatchWritten(before[k]) =>
                RiskFields(surfspots[k]) = RiskFields(before[k])

\* C12 witness: a second run has finished and has written again, with the
\* same values, two locations the earlier run had written, one of them with
\* a recency boost.
C12_Witness ==
    /\ bpc = "done"
    /\ ended = <<"done", "done">>
    /\ Len(surfspots) >= 2
    /\ UpdatedLines = DOMAIN surfspots
    /\ \A k \in DOMAIN before : BatchWritten(before[k])
    /\ \E k \in DOMAIN surfspots :
        calculate_spot_features(surfspots[k].name).recent_hazard_boost > 0
    /\ \A k \in DOMAIN surfspots : surfspots[k].riskScore > 0

-----------------------------------------------------------------------------
(* Further claims about the score arithmetic *)

\* C13: when the predicted level is not an index of the probability vector
\* the confidence is the probability at index 0 and the result is still
\* produced; otherwise the confidence is the probability at the index of
\* the predicted level.
C13_ConfidenceFallback ==
    Synthesized =>
        LET l == The(synth).level
            p == The(synth).proba
            c == SynthRun.result.confidence
        IN  /\ l >= Len(p) => c - p[1] \in -5..5
            /\ l < Len(p) => c - p[l + 1] \in -5..5
            /\ SynthRun.result.risk_score \in 0..ScoreMax

\* C13 witness: level 2 with a vector of two unequal probabilities has
\* been scored with the first of them as confidence.
C13_Witness ==
    /\ Synthesized
    /\ The(synth).level = 2
    /\ Len(The(synth).proba) = 2
    /\ The(synth).proba[1] < The(synth).proba[2]
    /\ SynthRun.result.confidence = The(synth).proba[1]

\* one threshold set has been applied to the two drawn scores
Compared == call # None /\ The(call).fn = "levels" /\ The(call).out # None

\* the order green < yellow < red
FlagRank == [green |-> 0, yellow |-> 1, red |-> 2]

\* C14: in the score synthesizer and in the threshold engine the flag is
\* green with Low, yellow with Medium and red with High, and under one
\* threshold set the higher of two scores never gets the lower level or
\* flag.
C14_PairedAndMonotonic ==
    Compared =>
        LET o == The(The(call).out)
        IN  /\ \A k \in 1..2 :
                \/ o[k].level = "Low" /\ o[k].flag = "green"
                \/ o[k].level = "Medium" /\ o[k].flag = "yellow"
                \/ o[k].level = "High" /\ o[k].flag = "red"
            /\ The(call).scores[1] <= The(call).scores[2]
            /\ LevelRank[o[1].level] <= LevelRank[o[2].level]
            /\ FlagRank[o[1].flag] <= FlagRank[o[2].flag]

\* C14 witness: under the fixed thresholds of predict_risk_score the lower
\* score is Medium / yellow and the one 0.01 above it is High / red.
C14_Witness ==
    /\ Compared
    /\ The(call).set.engine = "predict_risk_score"
    /\ The(call).scores[2] = The(call).scores[1] + 10
    /\ The(The(call).out)[1] = [level |-> "Medium", flag |-> "yellow"]
    /\ The(The(call).out)[2] = [level |-> "High", flag |-> "red"]

\* C15: the level and flag of a result are what the threshold set gives for
\* the reported 2-decimal score, so results with the same reported score
\* have the same level: under the fixed thresholds for predict_risk_score,
\* under the beginner thresholds for the overall result of
\* calculate_skill_based_risks.
C15_LevelFromReportedScore ==
    /\ Synthesized =>
        LET r == SynthRun.result
            level == IF r.risk_score <= 3300 THEN "Low"
                     ELSE IF r.risk_score <= 6600 THEN "Medium" ELSE "High"
        IN  r.risk_level = level
    /\ \A k \in DOMAIN SkillResults :
        LET o == SkillResults[k].overall
            level == IF o.score <= 5000 THEN "Low"
                     ELSE IF o.score <= 6500 THEN "Medium" ELSE "High"
        IN  o.level = level

-----------------------------------------------------------------------------
(* Further claims about the skill scripts *)

\* the results of the manual table once calculate_skill_based_risks has
\* gone through all its rows
ManualResults ==
    IF skill # None /\ The(skill).variant = "manual" /\ The(skill).pc = "update"
    THEN The(skill).results ELSE <<>>

\* C16: with the manual table and the tier thresholds the beginner and
\* intermediate flags are distributed as the authors expect, every spot is
\* green for advanced, and verify_expected_results returns True.
C16_ExpectedDistribution ==
    ManualResults # <<>> =>
        LET flagged(sk, fl) ==
                {ManualResults[k].spot_name : k \in
                    {j \in DOMAIN ManualResults : ManualResults[j][sk].flag = fl}}
            all == {ManualResults[k].spot_name : k \in DOMAIN ManualResults}
        IN  /\ flagged("beginner", "green") =
                   {"Kalpitiya", "Point Pedro", "Trincomalee"}
            /\ flagged("beginner", "yellow") =
                   {"Ahangama", "Arugam Bay", "Matara", "Thalpe", "Weligama"}
            /\ flagged("beginner", "red") =
                   {"Hikkaduwa", "Midigama", "Mirissa", "Unawatuna"}
            /\ flagged("intermediate", "green") =
                   {"Kalpitiya", "Point Pedro", "Trincomalee", "Matara", "Thalpe"}
            /\ flagged("intermediate", "yellow") =
                   {"Ahangama", "Arugam Bay", "Mirissa", "Weligama"}
            /\ flagged("intermediate", "red") =
                   {"Hikkaduwa", "Midigama", "Unawatuna"}
            /\ flagged("advanced", "green") = all
            /\ Cardinality(all) = 12
            /\ The(skill).verified # None => The(The(skill).verified) = TRUE

\* C16 witness: verify_expected_results has run on the twelve results of
\* the manual table and returned True.
C16_Witness ==
    /\ Len(ManualResults) = 12
    /\ The(skill).verified = Some(TRUE)

-----------------------------------------------------------------------------
(* Further claims about the API and the batch updater *)

\* the registry fields update_all_risk_scores may write
WrittenFields == {"riskScore", "riskLevel", "flagColor", "lastUpdated"}

\* C17: no step of predict_risk_score or update_all_risk_scores changes the
\* incident store or the hazard report store (report status included), adds
\* or removes a registry document, or changes a registry field other than
\* riskScore, riskLevel, flagColor and lastUpdated.
C17_SourcesNotMutated ==
    [][/\ incidents' = incidents
       /\ hazardreports' = hazardreports
       /\ DOMAIN surfspots' = DOMAIN surfspots
       /\ \A k \in DOMAIN surfspots :
           /\ DOMAIN surfspots'[k] = DOMAIN surfspots[k]
           /\ \A f \in DOMAIN surfspots[k] \ WrittenFields :
                  surfspots'[k][f] = surfspots[k][f]]_vars

\* C17 witness: the API has answered with a result and a batch run has
\* written a location, and the stores still hold the sample rows.
C17_Witness ==
    /\ bpc = "done"
    /\ \E k \in UpdatedLines : BatchWritten(surfspots[k])
    /\ response # None
    /\ The(response).body.success
    /\ incidents = SampleIncidents
    /\ hazardreports = SampleReports
    /\ \A k \in DOMAIN surfspots :
        /\ surfspots[k].totalIncidents = 0
        /\ surfspots[k].name = before[k].name

\* the last run of update_all_risk_scores was stopped in its loop
Interrupted ==
    bpc = "idle" /\ ended # <<>> /\ ended[Len(ended)] = "interrupted"

\* the risk fields a run that reaches the location and does not fail stores
UninterruptedFields(spot_name) ==
    {RiskFields(BatchUpdateData(predict_risk_score(spot_name, a, e).prediction)) :
        a \in {x \in Answers(calculate_spot_features(spot_name).features) :
                  ~x.raised},
        e \in FloatErr}

\* C18: while a run is in its loop, and after it has been stopped there,
\* the locations it has not reached hold what they held when it started;
\* and when a later run has gone through every location without failure,
\* every location holds the riskScore, riskLevel and flagColor that a
\* single uninterrupted run stores, whatever runs were stopped before.
C18_Resumable ==
    /\ (bpc = "loop" \/ Interrupted) =>
        \A k \in (Len(stdout) + 1)..Len(surfspots) : surfspots[k] = before[k]
    /\ (bpc = "done" /\ UpdatedLines = DOMAIN surfspots) =>
        \A k \in DOMAIN surfspots :
            RiskFields(surfspots[k]) \in UninterruptedFields(surfspots[k].name)

\* C18 witness: a run over three locations was stopped after the first, and
\* the next run found that state and went through all three.
C18_Witness ==
    /\ bpc = "done"
    /\ ended = <<"interrupted", "done">>
    /\ Len(surfspots) = 3
    /\ UpdatedLines = DOMAIN surfspots
    /\ BatchWritten(before[1])
    /\ Untouched(before[2])
    /\ Untouched(before[3])
    /\ \A k \in DOMAIN surfspots : BatchWritten(surfspots[k])

-----------------------------------------------------------------------------
(* Claims about calculate_risk_score and the feature record *)

\* calculate_risk_score has run on the drawn arguments
Calculated ==
    call # None /\ The(call).fn = "calculate_risk_score" /\ The(call).out # None

\* C19: calculate_risk_score returns 0 when max_incidents is 0 and
\* otherwise min(10, 10 * incidents_count / max_incidents * multiplier)
\* rounded to 2 decimals, with multipliers 1.5, 1.0 and 0.7; for
\* 0 <= incidents_count <= max_incidents the result lies in [0, 10].
C19_FormulaScore ==
    Calculated =>
        LET c == The(call).incidents_count
            m == The(call).max_incidents
            \* the multiplier in tenths
            k == IF The(call).skill_level = "beginner" THEN 15
                 ELSE IF The(call).skill_level = "intermediate" THEN 10 ELSE 7
            out == The(The(call).out)
        IN  /\ m = 0 => out = 0
            \* the exact score is 1000 * c * k / m thousandths
            /\ (m > 0 /\ 1000 * c * k >= 10000 * m) => out = 10000
            /\ (m > 0 /\ 1000 * c * k < 10000 * m) =>
                /\ out % 10 = 0
                /\ out * m - 1000 * c * k <= 5 * m
                /\ 1000 * c * k - out * m <= 5 * m
            /\ c <= m => out \in 0..10000

\* C19 witness: the spot with the most incidents of the beginner tier gets
\* 15 before the cap and 10 after it.
C19_Witness ==
    /\ Calculated
    /\ The(call).skill_level = "beginner"
    /\ The(call).max_incidents > 0
    /\ The(call).incidents_count = The(call).max_incidents
    /\ The(The(call).out) = 10000

\* the counts of the feature record
CountFields ==
    {"fatal_count", "severe_count", "moderate_count", "drowning_count",
     "reef_cut_count", "collision_count", "rip_current_count"}

\* C20: in the feature record total_incidents is the number of incidents of
\* the location plus 5 times the recency boost, incidents_per_year is that
\* number divided by 10 whatever hazard reports exist, and every severity
\* and type count is a natural number not above that number.
C20_FeatureValues ==
    feat # None =>
        LET raw == Cardinality({k \in DOMAIN incidents :
                                   incidents[k].site = The(feat).spot_name})
            f == FeatOut.features
        IN  /\ f.total_incidents = 1000 * raw + 5 * FeatOut.recent_hazard_boost
            /\ 10 * f.incidents_per_year = 1000 * raw
            /\ \A c \in CountFields : f[c] \in 0..raw

\* C20 witness: a location with three incidents and a recent high report
\* has total_incidents 13.0 and incidents_per_year 0.3.
C20_Witness ==
    /\ feat # None
    /\ InRegistry(The(feat).spot_name)
    /\ FeatOut.recent_hazard_boost = 2000
    /\ FeatOut.features.total_incidents = 13000
    /\ FeatOut.features.incidents_per_year = 300
    /\ FeatOut.features.fatal_count = 1

-----------------------------------------------------------------------------
(* C21: the feature record and the training schema *)

\* the names of a list of columns
Names(columns) == {columns[k] : k \in DOMAIN columns}

\* C21: the feature record built for a prediction has exactly the ten
\* names of the schema saved at training time, and the row handed to the
\* classifier has the schema's columns in the schema's order, each holding
\* the record's value of that name
C21_TrainingSchema ==
    (response # None /\ The(response).X # None) =>
        LET features == The(The(response).features)
            X == The(The(response).X)
        IN  /\ Len(feature_cols) = 10
            /\ Cardinality(Names(feature_cols)) = 10
            /\ DOMAIN features = Names(feature_cols)
            /\ X.columns = feature_cols
            /\ \A k \in DOMAIN feature_cols :
                   X.row[k] = features[feature_cols[k]]

\* a row was built for a spot with incidents: its first column is the
\* total and its last the yearly rate
C21_Witness ==
    /\ response # None
    /\ The(response).X # None
    /\ The(The(response).X).row[1] >= 3000
    /\ The(The(response).X).row[10] = 300
    /\ The(The(response).X).row[2] = 1

-----------------------------------------------------------------------------
(* C22: the skill tiers are ordered *)

\* the three answers for the drawn score
Tiered == call # None /\ The(call).fn = "tiers" /\ The(call).out # None

\* C22: for one score, in either copy of the script, the beginner level
\* is at least the intermediate level, which is at least the advanced
\* one (Low < Medium < High)
C22_BeginnerMostConservative ==
    Tiered =>
        LET out == The(The(call).out)
        IN  /\ LevelRank[out["beginner"].level]
                   >= LevelRank[out["intermediate"].level]
            /\ LevelRank[out["intermediate"].level]
                   >= LevelRank[out["advanced"].level]

\* a score that the three tiers rate differently: 6.8 is High for a
\* beginner, Medium for an intermediate and Low for an advanced surfer
C22_Witness ==
    /\ Tiered
    /\ The(call).score = 6800
    /\ The(The(call).out)["beginner"].level = "High"
    /\ The(The(call).out)["intermediate"].level = "Medium"
    /\ The(The(call).out)["advanced"].level = "Low"

-----------------------------------------------------------------------------
(* C23: the reported level against the predicted one, and the boost *)

\* the two results for the drawn answer
Boosted == call # None /\ The(call).fn = "boosts" /\ The(call).out # None

\* C23: under either boost the reported level is not below the
\* classifier's predicted level (0 Low, 1 Medium, 2 High), and the result
\* under the larger boost has neither a lower score nor a lower level than
\* the result under the smaller one
C23_LevelNotBelowPredicted ==
    Boosted =>
        LET out == The(The(call).out)
        IN  /\ \A i \in 1..2 :
                   LevelRank[out[i].risk_level] >= The(call).level
            /\ out[2].risk_score >= out[1].risk_score
            /\ LevelRank[out[2].risk_level] >= LevelRank[out[1].risk_level]

\* a predicted Medium of low confidence is reported Medium, and High with
\* one more high-severity report
C23_Witness ==
    /\ Boosted
    /\ The(call).level = 1
    /\ The(call).boosts[1] = 0
    /\ The(The(call).out)[1].risk_level = "Medium"
    /\ The(The(call).out)[2].risk_level = "High"
    /\ The(The(call).out)[2].risk_score > The(The(call).out)[1].risk_score

-----------------------------------------------------------------------------
(* C24: the formula path at the ends of its tables *)

\* the results of the copy that scores from incident counts
FormulaResults ==
    IF skill # None /\ The(skill).variant = "formula"
    THEN The(skill).results ELSE <<>>

\* C24: on the formula path no tier count of a location exceeds the
\* maximum of that tier, every advanced score is at most 7.0 with level
\* Low and flag green, and a location whose beginner count is the
\* beginner maximum has beginner score 10, High and red
C24_FormulaExtremes ==
    \A k \in DOMAIN FormulaResults :
        LET r == FormulaResults[k]
        IN  /\ \A sk \in SkillLevels : r[sk].incidents <= MaxIncidents(sk)
            /\ r["advanced"].score <= 7000
            /\ r["advanced"].level = "Low"
            /\ r["advanced"].flag = "green"
            /\ r["beginner"].incidents = MaxIncidents("beginner") =>
                   /\ r["beginner"].score = 10000
                   /\ r["beginner"].level = "High"
                   /\ r["beginner"].flag = "red"

\* Hikkaduwa holds the beginner maximum and Arugam Bay the advanced one:
\* the first is scored 10 for beginners, the second 7.0 for advanced
C24_Witness ==
    /\ Len(FormulaResults) >= 4
    /\ FormulaResults[1].spot_name = "Hikkaduwa"
    /\ FormulaResults[1]["beginner"].incidents = MaxIncidents("beginner")
    /\ FormulaResults[1]["beginner"].score = 10000
    /\ FormulaResults[4].spot_name = "Arugam Bay"
    /\ FormulaResults[4]["advanced"].incidents = MaxIncidents("advanced")
    /\ FormulaResults[4]["advanced"].score = 7000
    /\ FormulaResults[4]["advanced"].level = "Low"

-----------------------------------------------------------------------------
(* C25: the features at training time and at inference time *)

\* the rows extracted for training
TrainingRows ==
    IF call # None /\ The(call).fn = "extract_features_from_incidents"
       /\ The(call).out # None
    THEN The(The(call).out) ELSE <<>>

\* C25: with no recent hazard report, the ten features computed for a
\* location at inference time equal those of the location's training row
\* extracted from the same incidents in the same month
C25_TrainingMatchesInference ==
    feat # None =>
        \A k \in DOMAIN TrainingRows :
            TrainingRows[k].surf_spot = The(feat).spot_name =>
                \A c \in Names(feature_cols) :
                    TrainingRows[k][c] = FeatOut.features[c]

-----------------------------------------------------------------------------
(* C26: the registry under all of its writers *)

\* C26: whatever initialize_surf_spots, update_all_risk_scores and
\* update_database_with_skill_risks have done so far, every document of
\* the registry has a riskScore in [0, 10] and a riskLevel and flagColor
\* that are Low and green, Medium and yellow, or High and red
C26_RegistryWellFormed ==
    \A k \in DOMAIN surfspots :
        /\ surfspots[k].riskScore >= 0
        /\ surfspots[k].riskScore <= ScoreMax
        /\ surfspots[k].riskLevel \in DOMAIN LevelFlag
        /\ surfspots[k].flagColor = LevelFlag[surfspots[k].riskLevel]

\* one document was last written by a skill run and is not Low, another
\* was last written by the batch
C26_Witness ==
    \E j \in DOMAIN surfspots, k \in DOMAIN surfspots :
        /\ surfspots[j].lastUpdated = "update_database_with_skill_risks"
        /\ surfspots[j].riskLevel = "High"
        /\ surfspots[j].flagColor = "red"
        /\ surfspots[k].lastUpdated = "update_all_risk_scores"
        /\ surfspots[k].riskScore > 0

-----------------------------------------------------------------------------
(* C27: what update_database_with_skill_risks writes *)

\* the names of the built-in table of a copy of the script
TableNames(variant) ==
    {TableOf(variant)[k].spot_name : k \in DOMAIN TableOf(variant)}

\* the registry fields a copy of the script may write
SkillWrittenFields(variant) ==
    {"riskScore", "riskLevel", "flagColor", "lastUpdated", "skillLevelRisks"}
    \cup (IF variant = "formula" THEN {"totalIncidents"} ELSE {})

\* the rows the update loop of the current run has been through
RowsDone ==
    IF skill # None /\ The(skill).pc = "update"
    THEN 1..The(skill).updated ELSE {}

\* C27: no step of update_database_with_skill_risks adds or removes a
\* registry document; a document it changes is that of a spot of its
\* built-in table, and keeps every field other than riskScore, riskLevel,
\* flagColor, lastUpdated, skillLevelRisks and, in the formula copy,
\* totalIncidents; and the loop goes on past a table spot that is absent
\* from the registry: every row it has been through whose spot is in the
\* registry has been written
C27_SkillUpdateFrame ==
    /\ [][/\ DOMAIN surfspots' = DOMAIN surfspots
           /\ \A k \in DOMAIN surfspots :
               surfspots'[k] # surfspots[k] =>
                   /\ skill # None
                   /\ surfspots[k].name \in TableNames(The(skill).variant)
                   /\ DOMAIN surfspots'[k] = DOMAIN surfspots[k]
                   /\ \A f \in DOMAIN surfspots[k]
                               \ SkillWrittenFields(The(skill).variant) :
                          surfspots'[k][f] = surfspots[k][f]]_vars
    /\ [](\A j \in RowsDone :
            \A k \in DOMAIN surfspots :
                surfspots[k].name = The(skill).results[j].spot_name =>
                    /\ surfspots[k].lastUpdated
                           = "update_database_with_skill_risks"
                    /\ surfspots[k].riskScore
                           = The(skill).results[j].overall.score
                    /\ surfspots[k].skillLevelRisks # None)

\* the registry holds Midigama and Nilaveli only: the row of Hikkaduwa was
\* skipped, Midigama was written after it, and Nilaveli, which no table
\* names, is as initialize_surf_spots left it
C27_Witness ==
    /\ Len(surfspots) = 2
    /\ surfspots[1].name = "Midigama"
    /\ surfspots[2].name = "Nilaveli"
    /\ 2 \in RowsDone
    /\ The(skill).results[1].spot_name = "Hikkaduwa"
    /\ surfspots[1].lastUpdated = "update_database_with_skill_risks"
    /\ surfspots[1].skillLevelRisks # None
    /\ surfspots[2] = NewSpotDoc("Nilaveli", 0)

=============================================================================
